---- MODULE Spec2Model ----
(***************************************************************************)
(* Model of the two command-line pipelines of pdf-create-express:          *)
(*   scripts/convert_with_ghostscript.py  (grayscale conversion)           *)
(*   scripts/extract_pdf_images.py        (embedded image extraction)      *)
(* Three specifications share the module:                                  *)
(*   Spec         one run of the conversion command                        *)
(*   SpecSubst    the pixel background substitution on its own             *)
(*   SpecExtract  one run of the extraction command                        *)
(*   SpecLocator  the rasterizer locator as __main__ calls it              *)
(***************************************************************************)
EXTENDS Integers, Sequences, FiniteSets, TLC

\* ------------------------------------------------------------------ bounds
MaxPages == 2          \* page images one rasterizer run may produce
MaxStale == 3          \* page_NNNN.png files the side directory may hold beforehand
MaxPixels == 2         \* pixels of an image given to the substitution on its own
MaxDocPages == 2       \* pages of a document given to the extraction
MaxImages == 3         \* embedded images of a document given to the extraction

\* ------------------------------------------------------- program constants
MinDpi == 72
MaxDpi == 2400
DefaultDpi == 300
white_threshold == 240
MaxPixelValue == 255
\* 5% gray, int(0.95 * 255), in the place of 15% gray
GrayFivePercent == (95 * MaxPixelValue) \div 100
gray_bg_value == 217
MinImageSide == 50

SeqsUpTo(S, n) == UNION {[1..k -> S] : k \in 0..n}

\* ======================================================================
\*  Pixel background substitution (convert_with_ghostscript.py 262-277)
\* ======================================================================

\* an 8-bit single-channel image: px holds width*height values, row by row
Image(w, h, p) == [width |-> w, height |-> h, px |-> p]

\* img_array >= white_threshold: the boolean mask, one entry per pixel
WhiteMaskOffByOne(arr) == [i \in DOMAIN arr |-> arr[i] > white_threshold]

WhiteMask(arr) == [i \in DOMAIN arr |-> arr[i] >= white_threshold]

\* img_array[white_mask] = value: assignment through the mask (uint8 array)
MaskedAssign(arr, mask, value) ==
    [i \in DOMAIN arr |-> IF mask[i] THEN value % (MaxPixelValue + 1) ELSE arr[i]]

\* np.array(img_gray) ... Image.fromarray(img_array, mode='L')
SubstituteBackground(img) ==
    Image(img.width, img.height,
          MaskedAssign(img.px, WhiteMask(img.px), gray_bg_value))

\* ======================================================================
\*  State of the other two specifications
\* ======================================================================

VARIABLES
    s_pc,              \* substitution on its own: "idle", "loaded", "substituted"
    img_gray,          \* the 8-bit image before substitution
    img_with_bg,       \* the image after substitution
    s_page,            \* the page of the output document the image goes to
    s_dir              \* converted_images for this one page

substVars == <<s_pc, img_gray, img_with_bg, s_page, s_dir>>

VARIABLES
    l_pc,              \* locator on its own: "idle", "call", "convert", "exited", "crashed"
    probe_out,         \* how each candidate answers [cmd, '-version'] when it is probed
    gs,                \* what check_ghostscript came to
    l_exit             \* exit status of __main__, -1 while it goes on

locVars == <<l_pc, probe_out, gs, l_exit>>

VARIABLES
    e_pc,              \* position of the extraction run
    argv_len,          \* len(sys.argv)
    path_exists,       \* os.path.exists(pdf_path)
    pdf_document,      \* the document behind pdf_path
    page_num,          \* 0-based page being enumerated
    image_list,        \* page.get_images(full=True) of that page
    img_index,         \* 0-based index of the next image of image_list
    extracted_images,  \* records collected so far
    image_counter,     \* filename counter
    stdout,            \* JSON objects printed to standard output, in order
    e_exit             \* exit status of the extraction command, -1 while running

extrVars == <<e_pc, argv_len, path_exists, pdf_document, page_num, image_list,
              img_index, extracted_images, image_counter, stdout, e_exit>>

\* ======================================================================
\*  Conversion command (convert_with_ghostscript.py)
\* ======================================================================

VARIABLES
    pc,                \* position of the conversion run
    dpi,               \* args.dpi
    input_exists,      \* os.path.exists(input_pdf)
    calls,             \* subprocess invocations made so far, in order
    gs_command,        \* rasterizer found by convert_pdf_to_grayscale
    temp_dir,          \* "absent", "exists" or "removed"
    cleanup_ran,       \* shutil.rmtree(temp_dir) has been attempted
    png_files,         \* sorted page images the rasterizer left in temp_dir
    empty_pdf_doc,     \* the document being assembled, a sequence of pages
    grayscale_images,  \* background-substituted images, in page order
    output_pdf,        \* pages of the document written to the output path
    output_saved,      \* the output document has been written by this run
    images_dir,        \* converted_images: page number -> PNG file
    images_dir_before, \* what converted_images held when the run began
    save_error,        \* step 5 raised (and was downgraded to a warning)
    verify_outcome,    \* what the verification pass came to
    ret,               \* return value of convert_pdf_to_grayscale
    exit_code,         \* process exit status, -1 while running
    cause              \* which error ended the run

convVars == <<pc, dpi, input_exists, calls, gs_command, temp_dir, cleanup_ran,
              png_files, empty_pdf_doc, grayscale_images, output_pdf,
              output_saved, images_dir, images_dir_before, save_error,
              verify_outcome, ret, exit_code, cause>>

DpiValues == {0, MinDpi - 1, MinDpi, DefaultDpi, MaxDpi, MaxDpi + 1}

SamplePixels == {white_threshold - 1, white_threshold}

\* what the rasterizer may write for one page
PageImages == {Image(1, 1, <<v>>) : v \in SamplePixels}

\* a PNG file: the pixels (lossless) and the DPI metadata written with them
PngSave(img, d) == [width |-> img.width, height |-> img.height, px |-> img.px, dpi |-> d]

\* a file left in converted_images by an earlier run
StaleFile == PngSave(Image(1, 1, <<0>>), DefaultDpi)

\* ---- argument validation, line 468
DpiInRangeExclusive(d) == ~(d <= MinDpi \/ d >= MaxDpi)

DpiInRange(d) == ~(d < MinDpi \/ d > MaxDpi)

\* ---- check_ghostscript, lines 26-45
Commands == <<"gswin64c", "gswin32c", "gs">>

\* result of subprocess.run([cmd, '-version'], timeout=5) for one candidate
ProbeOutcomes == {"rc0", "nonzero", "missing", "timeout", "oserror"}

RECURSIVE CheckFrom(_, _)
CheckFrom(i, out) ==
    IF i > Len(Commands)
    THEN [cmd |-> "None", probed |-> Len(Commands), raised |-> FALSE]
    ELSE CASE out[i] = "rc0" -> [cmd |-> Commands[i], probed |-> i, raised |-> FALSE]
           [] out[i] = "oserror" -> [cmd |-> "None", probed |-> i, raised |-> TRUE]
           [] OTHER -> CheckFrom(i + 1, out)

check_ghostscript(out) == CheckFrom(1, out)

ProbeCalls(n) == [k \in 1..n |-> [cmd |-> Commands[k], op |-> "version"]]

\* ---- control helpers
Goto(l) == pc' = l /\ UNCHANGED <<ret, exit_code, cause>>

\* return from convert_pdf_to_grayscale
Return(code, why) ==
    pc' = "returned" /\ ret' = code /\ cause' = why /\ UNCHANGED exit_code

\* sys.exit(code), or an exception nobody catches (status 1)
Exit(code, why) ==
    pc' = "done" /\ exit_code' = code /\ cause' = why /\ UNCHANGED ret

\* try: shutil.rmtree(temp_dir) except: pass
Rmtree ==
    \E removed \in BOOLEAN :
        /\ temp_dir' = IF removed THEN "removed" ELSE temp_dir
        /\ cleanup_ran' = TRUE

\* the two outer handlers, lines 427-446
OuterHandler(exc) == IF exc = "TimeoutExpired" THEN "timeout" ELSE "exception"

Handle(exc) == Rmtree /\ Return(1, OuterHandler(exc))

\* ---- __main__, lines 465-470
ValidateDpi ==
    /\ pc = "validate_dpi"
    /\ IF DpiInRange(dpi) THEN Goto("main_check_gs") ELSE Exit(1, "dpi")
    /\ UNCHANGED <<substVars, extrVars, locVars>>
    /\ UNCHANGED <<dpi, input_exists, calls, gs_command, temp_dir, cleanup_ran,
                   png_files, empty_pdf_doc, grayscale_images, output_pdf,
                   output_saved, images_dir, images_dir_before, save_error,
                   verify_outcome>>

\* ---- __main__, lines 472-480
MainCheckGs ==
    /\ pc = "main_check_gs"
    /\ \E out \in [1..Len(Commands) -> ProbeOutcomes] :
         LET r == check_ghostscript(out) IN
           /\ calls' = calls \o ProbeCalls(r.probed)
           /\ IF r.raised THEN Exit(1, "crash")
              ELSE IF r.cmd = "None" THEN Exit(1, "no_gs")
              ELSE Goto("convert_entry")
    /\ UNCHANGED <<substVars, extrVars, locVars>>
    /\ UNCHANGED <<dpi, input_exists, gs_command, temp_dir, cleanup_ran,
                   png_files, empty_pdf_doc, grayscale_images, output_pdf,
                   output_saved, images_dir, images_dir_before, save_error,
                   verify_outcome>>

\* ---- convert_pdf_to_grayscale, lines 124-141
ConvertEntry ==
    /\ pc = "convert_entry"
    /\ IF ~input_exists
       THEN Return(1, "missing_input") /\ UNCHANGED <<calls, gs_command>>
       ELSE \E out \in [1..Len(Commands) -> ProbeOutcomes] :
              LET r == check_ghostscript(out) IN
                /\ calls' = calls \o ProbeCalls(r.probed)
                /\ IF r.raised THEN Exit(1, "crash") /\ UNCHANGED gs_command
                   ELSE IF r.cmd = "None"
                        THEN Return(1, "no_gs") /\ UNCHANGED gs_command
                   ELSE Goto("mkdtemp") /\ gs_command' = r.cmd
    /\ UNCHANGED <<substVars, extrVars, locVars>>
    /\ UNCHANGED <<dpi, input_exists, temp_dir, cleanup_ran,
                   png_files, empty_pdf_doc, grayscale_images, output_pdf,
                   output_saved, images_dir, images_dir_before, save_error,
                   verify_outcome>>

\* ---- lines 143-149
Mkdtemp ==
    /\ pc = "mkdtemp"
    /\ temp_dir' = "exists"
    /\ Goto("rasterize")
    /\ UNCHANGED <<substVars, extrVars, locVars>>
    /\ UNCHANGED <<dpi, input_exists, calls, gs_command, cleanup_ran,
                   png_files, empty_pdf_doc, grayscale_images, output_pdf,
                   output_saved, images_dir, images_dir_before, save_error,
                   verify_outcome>>

\* ---- step 1, lines 152-203
\* subprocess.run(gs_args, timeout=300) either raises or ends with a return
\* code, having left some page files in temp_dir
RasterOutcomes ==
    {[exc |-> e, rc |-> 0, files |-> <<>>] : e \in {"TimeoutExpired", "OSError"}}
    \cup {[exc |-> "none", rc |-> r, files |-> f] :
            r \in {0, 1}, f \in SeqsUpTo(PageImages, MaxPages)}

\* the checks of lines 185-203 on the finished process
RasterVerdictNoEmptyCheck(rc, files) == IF rc # 0 THEN "gs_exit" ELSE "ok"

RasterVerdict(rc, files) ==
    IF rc # 0 THEN "gs_exit"
    ELSE IF files = <<>> THEN "no_png"
    ELSE "ok"

Rasterize ==
    /\ pc = "rasterize"
    /\ calls' = Append(calls, [cmd |-> gs_command, op |-> "pnggray"])
    /\ \E o \in RasterOutcomes :
         IF o.exc # "none"
         THEN Handle(o.exc) /\ UNCHANGED png_files
         ELSE IF RasterVerdict(o.rc, o.files) = "ok"
              THEN /\ png_files' = o.files
                   /\ Goto("build_pages")
                   /\ UNCHANGED <<temp_dir, cleanup_ran>>
              ELSE /\ Return(1, RasterVerdict(o.rc, o.files))
                   /\ UNCHANGED <<png_files, temp_dir, cleanup_ran>>
    /\ UNCHANGED <<substVars, extrVars, locVars>>
    /\ UNCHANGED <<dpi, input_exists, gs_command,
                   empty_pdf_doc, grayscale_images, output_pdf,
                   output_saved, images_dir, images_dir_before, save_error,
                   verify_outcome>>

\* ---- step 2, lines 212-240
\* a page of the document: its canvas (in points, as numerators over one
\* denominator), its background fill and the image placed on it
A4Box == [w |-> 595, h |-> 842, den |-> 1]

NoImage == [width |-> 0, height |-> 0, px |-> <<>>, dpi |-> 0]

BlankPage == [mediabox |-> A4Box, background |-> gray_bg_value, image |-> NoImage]

BlankPagesOneMore(n) == [i \in 1..(n + 1) |-> BlankPage]

BlankPages(n) == [i \in 1..n |-> BlankPage]

BuildPages ==
    /\ pc = "build_pages"
    /\ \E exc \in {"none", "RuntimeError"} :
         IF exc = "none"
         THEN /\ empty_pdf_doc' = BlankPages(Len(png_files))
              /\ Goto("substitute")
              /\ UNCHANGED <<temp_dir, cleanup_ran>>
         ELSE Handle(exc) /\ UNCHANGED empty_pdf_doc
    /\ UNCHANGED <<substVars, extrVars, locVars>>
    /\ UNCHANGED <<dpi, input_exists, calls, gs_command,
                   png_files, grayscale_images, output_pdf,
                   output_saved, images_dir, images_dir_before, save_error,
                   verify_outcome>>

\* ---- step 3, lines 242-284
Substitute ==
    /\ pc = "substitute"
    /\ \E exc \in {"none", "OSError"} :
         IF exc = "none"
         THEN /\ grayscale_images' =
                    [i \in 1..Len(png_files) |-> SubstituteBackground(png_files[i])]
              /\ Goto("insert")
              /\ UNCHANGED <<temp_dir, cleanup_ran>>
         ELSE Handle(exc) /\ UNCHANGED grayscale_images
    /\ UNCHANGED <<substVars, extrVars, locVars>>
    /\ UNCHANGED <<dpi, input_exists, calls, gs_command,
                   png_files, empty_pdf_doc, output_pdf,
                   output_saved, images_dir, images_dir_before, save_error,
                   verify_outcome>>

\* ---- step 4, lines 286-312
\* page_width = (width / dpi) * 72, page_height = (height / dpi) * 72
ImageBox(img, d) == [w |-> img.width * 72, h |-> img.height * 72, den |-> d]

InsertImage(page, img, d) ==
    [page EXCEPT !.mediabox = ImageBox(img, d), !.image = PngSave(img, d)]

InsertImages ==
    /\ pc = "insert"
    /\ \E exc \in {"none", "RuntimeError"} :
         IF Len(empty_pdf_doc) < Len(grayscale_images)
         THEN Handle("IndexError") /\ UNCHANGED empty_pdf_doc
         ELSE IF exc = "none"
         THEN /\ empty_pdf_doc' =
                    [i \in 1..Len(empty_pdf_doc) |->
                        IF i <= Len(grayscale_images)
                        THEN InsertImage(empty_pdf_doc[i], grayscale_images[i], dpi)
                        ELSE empty_pdf_doc[i]]
              /\ Goto("save_pdf")
              /\ UNCHANGED <<temp_dir, cleanup_ran>>
         ELSE Handle(exc) /\ UNCHANGED empty_pdf_doc
    /\ UNCHANGED <<substVars, extrVars, locVars>>
    /\ UNCHANGED <<dpi, input_exists, calls, gs_command,
                   png_files, grayscale_images, output_pdf,
                   output_saved, images_dir, images_dir_before, save_error,
                   verify_outcome>>

\* ---- lines 314-317
SavePdf ==
    /\ pc = "save_pdf"
    /\ \E exc \in {"none", "OSError"} :
         IF exc = "none"
         THEN /\ output_pdf' = empty_pdf_doc
              /\ output_saved' = TRUE
              /\ Goto("save_images")
              /\ UNCHANGED <<temp_dir, cleanup_ran>>
         ELSE Handle(exc) /\ UNCHANGED <<output_pdf, output_saved>>
    /\ UNCHANGED <<substVars, extrVars, locVars>>
    /\ UNCHANGED <<dpi, input_exists, calls, gs_command,
                   png_files, empty_pdf_doc, grayscale_images,
                   images_dir, images_dir_before, save_error,
                   verify_outcome>>

\* ---- step 5, lines 319-346
\* os.makedirs(images_dir, exist_ok=True), then page_0001.png ... one by one;
\* `wrote` files are in place when the step ends or raises
WriteImages(dir, imgs, wrote, d) ==
    [i \in (DOMAIN dir) \cup (1..wrote) |->
        IF i <= wrote THEN PngSave(imgs[i], d) ELSE dir[i]]

\* except Exception as save_error (line 345)
SaveImagesCatchesOSErrorOnly(exc) == exc = "OSError"

SaveImagesCatches(exc) == TRUE

SaveImages ==
    /\ pc = "save_images"
    /\ \E wrote \in 0..Len(grayscale_images), exc \in {"none", "OSError", "ValueError"} :
         /\ wrote < Len(grayscale_images) => exc # "none"
         /\ images_dir' = WriteImages(images_dir, grayscale_images, wrote, dpi)
         /\ IF exc = "none" \/ SaveImagesCatches(exc)
            THEN /\ save_error' = (exc # "none")
                 /\ Goto("stats")
                 /\ UNCHANGED <<temp_dir, cleanup_ran>>
            ELSE Handle(exc) /\ UNCHANGED save_error
    /\ UNCHANGED <<substVars, extrVars, locVars>>
    /\ UNCHANGED <<dpi, input_exists, calls, gs_command,
                   png_files, empty_pdf_doc, grayscale_images, output_pdf,
                   output_saved, images_dir_before, verify_outcome>>

\* ---- lines 348-376: os.path.getsize(output_pdf) and the size ratio
Stats ==
    /\ pc = "stats"
    /\ \E exc \in {"none", "OSError", "ZeroDivisionError"} :
         IF exc = "none"
         THEN Goto("verify") /\ UNCHANGED <<temp_dir, cleanup_ran>>
         ELSE Handle(exc)
    /\ UNCHANGED <<substVars, extrVars, locVars>>
    /\ UNCHANGED <<dpi, input_exists, calls, gs_command,
                   png_files, empty_pdf_doc, grayscale_images, output_pdf,
                   output_saved, images_dir, images_dir_before, save_error,
                   verify_outcome>>

\* ---- lines 378-415
\* the inkcov run reports no colour, reports colour, prints nothing, or the
\* try block raises (30 s timeout, process cannot start, float() fails)
VerifyOutcomes ==
    {"grayscale", "color", "no_output", "TimeoutExpired", "OSError", "ValueError"}

VerifyRaises(v) == v \in {"TimeoutExpired", "OSError", "ValueError"}

\* except Exception as verify_error (line 412)
VerifyCatches(exc) == TRUE

Verify ==
    /\ pc = "verify"
    /\ calls' = Append(calls, [cmd |-> gs_command, op |-> "inkcov"])
    /\ \E v \in VerifyOutcomes :
         IF VerifyRaises(v) /\ ~VerifyCatches(v)
         THEN Handle(v) /\ UNCHANGED verify_outcome
         ELSE /\ verify_outcome' = v
              /\ Goto("cleanup")
              /\ UNCHANGED <<temp_dir, cleanup_ran>>
    /\ UNCHANGED <<substVars, extrVars, locVars>>
    /\ UNCHANGED <<dpi, input_exists, gs_command,
                   png_files, empty_pdf_doc, grayscale_images, output_pdf,
                   output_saved, images_dir, images_dir_before, save_error>>

\* ---- lines 417-425
CleanupReturn ==
    /\ pc = "cleanup"
    /\ Rmtree
    /\ Return(0, "none")
    /\ UNCHANGED <<substVars, extrVars, locVars>>
    /\ UNCHANGED <<dpi, input_exists, calls, gs_command,
                   png_files, empty_pdf_doc, grayscale_images, output_pdf,
                   output_saved, images_dir, images_dir_before, save_error,
                   verify_outcome>>

\* ---- lines 483-484
MainExit ==
    /\ pc = "returned"
    /\ pc' = "done"
    /\ exit_code' = ret
    /\ UNCHANGED <<ret, cause>>
    /\ UNCHANGED <<substVars, extrVars, locVars>>
    /\ UNCHANGED <<dpi, input_exists, calls, gs_command, temp_dir, cleanup_ran,
                   png_files, empty_pdf_doc, grayscale_images, output_pdf,
                   output_saved, images_dir, images_dir_before, save_error,
                   verify_outcome>>

\* ======================================================================
\*  Background substitution on its own (lines 262-277 applied to one image)
\* ======================================================================

EdgePixels == {0, white_threshold - 1, white_threshold, MaxPixelValue}

\* images of at most MaxPixels pixels: the first pixel takes every 8-bit
\* value, the others the values around the threshold
PixelRows(n) ==
    {<<v>> \o rest : v \in 0..MaxPixelValue, rest \in [1..(n - 1) -> EdgePixels]}

TestImages ==
    UNION {{Image(n, 1, p) : p \in PixelRows(n)} \cup {Image(1, n, p) : p \in PixelRows(n)} :
           n \in 1..MaxPixels}

NoResult == Image(0, 0, <<>>)

SubstInit ==
    /\ s_pc = "loaded"
    /\ img_gray \in TestImages
    /\ img_with_bg = NoResult
    /\ s_page = BlankPage
    /\ s_dir = <<>>

SubstIdle ==
    /\ s_pc = "idle"
    /\ img_gray = NoResult
    /\ img_with_bg = NoResult
    /\ s_page = BlankPage
    /\ s_dir = <<>>

ApplySubstitution ==
    /\ s_pc = "loaded"
    /\ img_with_bg' = SubstituteBackground(img_gray)
    /\ s_pc' = "substituted"
    /\ UNCHANGED <<img_gray, s_page, s_dir>>
    /\ UNCHANGED <<convVars, extrVars, locVars>>

\* ---- lines 290-310 for this page: the substituted image, saved as PNG
\* into memory, is placed on its page
InsertOnPage ==
    /\ s_pc = "substituted"
    /\ s_page' = InsertImage(s_page, img_with_bg, dpi)
    /\ s_pc' = "inserted"
    /\ UNCHANGED <<img_gray, img_with_bg, s_dir>>
    /\ UNCHANGED <<convVars, extrVars, locVars>>

\* ---- lines 329-334 for this page: the same list entry is saved as
\* page_0001.png in the side directory
SaveSideImage ==
    /\ s_pc = "inserted"
    /\ s_dir' = WriteImages(s_dir, <<img_with_bg>>, 1, dpi)
    /\ s_pc' = "saved"
    /\ UNCHANGED <<img_gray, img_with_bg, s_page>>
    /\ UNCHANGED <<convVars, extrVars, locVars>>

\* ======================================================================
\*  Extraction command (extract_pdf_images.py)
\* ======================================================================

\* ---- base64.b64encode(img_bytes).decode('utf-8'), lines 93 and 100
\* a base64 text is a sequence of alphabet indices 0..63 and the pad sign
B64Pad == 64

RECURSIVE B64Encode(_)
B64Encode(b) ==
    IF Len(b) = 0 THEN <<>>
    ELSE IF Len(b) = 1
         THEN <<b[1] \div 4, (b[1] % 4) * 16, B64Pad, B64Pad>>
    ELSE IF Len(b) = 2
         THEN <<b[1] \div 4, (b[1] % 4) * 16 + b[2] \div 16, (b[2] % 16) * 4, B64Pad>>
    ELSE <<b[1] \div 4, (b[1] % 4) * 16 + b[2] \div 16,
           (b[2] % 16) * 4 + b[3] \div 64, b[3] % 64>>
         \o B64Encode(SubSeq(b, 4, Len(b)))

\* the reader's side of the payload: base64 decoding of such a text
RECURSIVE B64Decode(_)
B64Decode(c) ==
    IF Len(c) < 4 THEN <<>>
    ELSE (IF c[3] = B64Pad
          THEN <<c[1] * 4 + c[2] \div 16>>
          ELSE IF c[4] = B64Pad
          THEN <<c[1] * 4 + c[2] \div 16, (c[2] % 16) * 16 + c[3] \div 4>>
          ELSE <<c[1] * 4 + c[2] \div 16, (c[2] % 16) * 16 + c[3] \div 4,
                 (c[3] % 4) * 64 + c[4]>>)
         \o B64Decode(SubSeq(c, 5, Len(c)))

\* ---- embedded images of the input document
\* what pdf_document.extract_image(xref) gives for one image reference:
\* it raises, returns None, or returns the bytes and metadata; conv says
\* whether the JPEG re-encoding of lines 70-93 succeeds on it
EmbeddedImage(e, w, h, b, c) ==
    [extract |-> e, width |-> w, height |-> h, image |-> b,
     colorspace |-> 3, conv |-> c]

OrigPayloads == {<<137>>, <<137, 80>>}

Sides == {MinImageSide - 1, MinImageSide}

EmbeddedImages ==
    {EmbeddedImage(e, 0, 0, <<>>, "fail") : e \in {"raise", "none"}}
    \cup {EmbeddedImage("ok", w, h, <<137>>, "ok") :
            <<w, h>> \in (Sides \X Sides) \ {<<MinImageSide, MinImageSide>>}}
    \cup {EmbeddedImage("ok", MinImageSide, MinImageSide, b, c) :
            b \in OrigPayloads, c \in {"ok", "fail"}}

\* a document: whether fitz.open works on it, and its pages, each the
\* sequence of image references page.get_images gives for it
NoDocument == [openable |-> FALSE, pages |-> <<>>]

RECURSIVE SumSeq(_)
SumSeq(q) == IF q = <<>> THEN 0 ELSE q[1] + SumSeq(Tail(q))

\* how n images may lie on at most p pages: the image count of each page
PageSizes(p, n) == {q \in SeqsUpTo(0..n, p) : SumSeq(q) = n}

\* the pages holding the images imgs, sizes[i] of them on page i
SplitPages(imgs, sizes) ==
    [i \in 1..Len(sizes) |->
        SubSeq(imgs, SumSeq(SubSeq(sizes, 1, i - 1)) + 1,
                     SumSeq(SubSeq(sizes, 1, i)))]

\* ---- the image in memory after Image.open, mode conversion and
\* image.save(img_buffer, 'JPEG', ...), lines 72-89: a JPEG stream, which
\* opens with the SOI marker and closes with the EOI marker
JpegSave(image_bytes) == <<255, 216>> \o image_bytes \o <<255, 217>>

\* ---- lines 85-93: the re-encoding path
ConvertPathSizeOfOriginal(image_bytes) ==
    LET img_bytes == JpegSave(image_bytes) IN
      [img_bytes |-> img_bytes,
       file_size |-> Len(image_bytes),
       base64_data |-> B64Encode(img_bytes)]

ConvertPath(image_bytes) ==
    LET img_bytes == JpegSave(image_bytes) IN
      [img_bytes |-> img_bytes,
       file_size |-> Len(img_bytes),
       base64_data |-> B64Encode(img_bytes)]

\* ---- lines 95-100: the fallback path
FallbackPathReencoded(image_bytes) == ConvertPath(image_bytes)

FallbackPath(image_bytes) ==
    [img_bytes |-> image_bytes,
     file_size |-> Len(image_bytes),
     base64_data |-> B64Encode(image_bytes)]

\* ---- line 62
TooSmallInclusive(width, height) == width <= MinImageSide \/ height <= MinImageSide

TooSmall(width, height) == width < MinImageSide \/ height < MinImageSide

\* ---- line 67: f"image_p{page_num + 1}_{image_counter}.jpg"
FilenameZeroBasedPage(page, counter) ==
    [prefix |-> "image_p", page |-> page - 1, counter |-> counter, ext |-> ".jpg"]

Filename(page, counter) == [prefix |-> "image_p", page |-> page, counter |-> counter, ext |-> ".jpg"]

\* ---- lines 106-116
Record(img, page, counter, enc) ==
    [filename |-> Filename(page, counter),
     base64 |-> enc.base64_data,
     page |-> page,
     width |-> img.width,
     height |-> img.height,
     format |-> "jpg",
     mimeType |-> "image/jpeg",
     colorspace |-> img.colorspace,
     size |-> enc.file_size]

\* ---- lines 118-121: except Exception as img_error ... continue
ImageErrorCaughtNever(e) == FALSE

ImageErrorCaught(e) == TRUE

\* ---- lines 155-161 and 133-136, 144-147, 165-168
SuccessObject(images) == [success |-> TRUE, images |-> images, count |-> Len(images)]

ErrorObject(msg) == [success |-> FALSE, error |-> msg]

\* print(json.dumps(...)); sys.exit(code)
PrintAndExit(obj, code) ==
    /\ stdout' = Append(stdout, obj)
    /\ e_exit' = code
    /\ e_pc' = "done"

\* the three error exits of main: print the error object, sys.exit(1)
FailStatusZero(msg) == PrintAndExit(ErrorObject(msg), 0)

Fail(msg) == PrintAndExit(ErrorObject(msg), 1)

\* line 128: f"Failed to extract images from PDF: {str(e)}"
ExtractFailed(e) == <<"Failed to extract images from PDF", e>>

Usage == <<"Usage: python extract_pdf_images.py <pdf_path> <output_dir>", "">>

NotFound == <<"PDF file not found", "pdf_path">>

\* ---- main, lines 132-140
MainArgs ==
    /\ e_pc = "args"
    /\ IF argv_len < 3
       THEN Fail(Usage)
       ELSE e_pc' = "check_path" /\ UNCHANGED <<stdout, e_exit>>
    /\ UNCHANGED <<argv_len, path_exists, pdf_document, page_num, image_list,
                   img_index, extracted_images, image_counter>>
    /\ UNCHANGED <<convVars, substVars, locVars>>

\* ---- main, lines 142-148
MainCheckPath ==
    /\ e_pc = "check_path"
    /\ IF ~path_exists
       THEN Fail(NotFound)
       ELSE e_pc' = "open" /\ UNCHANGED <<stdout, e_exit>>
    /\ UNCHANGED <<argv_len, path_exists, pdf_document, page_num, image_list,
                   img_index, extracted_images, image_counter>>
    /\ UNCHANGED <<convVars, substVars, locVars>>

\* ---- lines 28-33; a failure is re-raised at 127-128 and reported at 164-169
OpenPdf ==
    /\ e_pc = "open"
    /\ IF pdf_document.openable
       THEN /\ extracted_images' = <<>>
            /\ image_counter' = 0
            /\ page_num' = 0
            /\ e_pc' = "page"
            /\ UNCHANGED <<stdout, e_exit>>
       ELSE /\ Fail(ExtractFailed("open"))
            /\ UNCHANGED <<extracted_images, image_counter, page_num>>
    /\ UNCHANGED <<argv_len, path_exists, pdf_document, image_list, img_index>>
    /\ UNCHANGED <<convVars, substVars, locVars>>

\* ---- lines 36-40: the next page of the outer loop; pdf_document[page_num]
\* or page.get_images may raise, which ends the extraction (127-128, 164-169)
NextPage ==
    /\ e_pc = "page"
    /\ page_num < Len(pdf_document.pages)
    /\ \E listed \in BOOLEAN :
         IF listed
         THEN /\ image_list' = pdf_document.pages[page_num + 1]
              /\ img_index' = 0
              /\ e_pc' = "image"
              /\ UNCHANGED <<stdout, e_exit>>
         ELSE /\ Fail(ExtractFailed("page"))
              /\ UNCHANGED <<image_list, img_index>>
    /\ UNCHANGED <<argv_len, path_exists, pdf_document, page_num,
                   extracted_images, image_counter>>
    /\ UNCHANGED <<convVars, substVars, locVars>>

\* ---- lines 43-121: one pass of the inner loop body
ExtractImage ==
    /\ e_pc = "image"
    /\ img_index < Len(image_list)
    /\ LET img == image_list[img_index + 1] IN
         IF img.extract = "raise"
         THEN IF ImageErrorCaught(img)
              THEN /\ img_index' = img_index + 1
                   /\ UNCHANGED <<extracted_images, image_counter, e_pc, stdout, e_exit>>
              ELSE /\ Fail(ExtractFailed("image"))
                   /\ UNCHANGED <<extracted_images, image_counter, img_index>>
         ELSE /\ img_index' = img_index + 1
              /\ UNCHANGED <<e_pc, stdout, e_exit>>
              /\ IF img.extract = "none" \/ TooSmall(img.width, img.height)
                 THEN UNCHANGED <<extracted_images, image_counter>>
                 ELSE /\ image_counter' = image_counter + 1
                      /\ extracted_images' =
                           Append(extracted_images,
                                  Record(img, page_num + 1, image_counter + 1,
                                         IF img.conv = "ok"
                                         THEN ConvertPath(img.image)
                                         ELSE FallbackPath(img.image)))
    /\ UNCHANGED <<argv_len, path_exists, pdf_document, page_num, image_list>>
    /\ UNCHANGED <<convVars, substVars, locVars>>

\* ---- line 43: the inner loop is exhausted, on to the next page
EndOfPage ==
    /\ e_pc = "image"
    /\ img_index >= Len(image_list)
    /\ page_num' = page_num + 1
    /\ e_pc' = "page"
    /\ UNCHANGED <<argv_len, path_exists, pdf_document, image_list, img_index,
                   extracted_images, image_counter, stdout, e_exit>>
    /\ UNCHANGED <<convVars, substVars, locVars>>

\* ---- lines 123-125 and 152-162
Finish ==
    /\ e_pc = "page"
    /\ page_num >= Len(pdf_document.pages)
    /\ PrintAndExit(SuccessObject(extracted_images), 0)
    /\ UNCHANGED <<argv_len, path_exists, pdf_document, page_num, image_list,
                   img_index, extracted_images, image_counter>>
    /\ UNCHANGED <<convVars, substVars, locVars>>

ExtrInit ==
    /\ e_pc = "args"
    /\ argv_len \in {1, 2, 3}
    /\ path_exists \in BOOLEAN
    /\ IF argv_len >= 3 /\ path_exists
       THEN \/ pdf_document = NoDocument
            \/ \E n \in 0..MaxImages :
                 \E imgs \in [1..n -> EmbeddedImages], sizes \in PageSizes(MaxDocPages, n) :
                    pdf_document = [openable |-> TRUE, pages |-> SplitPages(imgs, sizes)]
       ELSE pdf_document = NoDocument
    /\ page_num = 0
    /\ image_list = <<>>
    /\ img_index = 0
    /\ extracted_images = <<>>
    /\ image_counter = 0
    /\ stdout = <<>>
    /\ e_exit = -1

ExtrIdle ==
    /\ e_pc = "idle"
    /\ argv_len = 1
    /\ path_exists = FALSE
    /\ pdf_document = NoDocument
    /\ page_num = 0
    /\ image_list = <<>>
    /\ img_index = 0
    /\ extracted_images = <<>>
    /\ image_counter = 0
    /\ stdout = <<>>
    /\ e_exit = -1

ConvInit ==
    /\ pc = "validate_dpi"
    /\ dpi \in DpiValues
    /\ input_exists \in BOOLEAN
    /\ calls = <<>>
    /\ gs_command = "None"
    /\ temp_dir = "absent"
    /\ cleanup_ran = FALSE
    /\ png_files = <<>>
    /\ empty_pdf_doc = <<>>
    /\ grayscale_images = <<>>
    /\ output_pdf = <<>>
    /\ output_saved = FALSE
    /\ \E S \in SUBSET (1..MaxStale) : images_dir = [i \in S |-> StaleFile]
    /\ images_dir_before = images_dir
    /\ save_error = FALSE
    /\ verify_outcome = "none"
    /\ ret = -1
    /\ exit_code = -1
    /\ cause = "none"

ConvIdle ==
    /\ pc = "idle"
    /\ dpi = DefaultDpi
    /\ input_exists = FALSE
    /\ calls = <<>>
    /\ gs_command = "None"
    /\ temp_dir = "absent"
    /\ cleanup_ran = FALSE
    /\ png_files = <<>>
    /\ empty_pdf_doc = <<>>
    /\ grayscale_images = <<>>
    /\ output_pdf = <<>>
    /\ output_saved = FALSE
    /\ images_dir = <<>>
    /\ images_dir_before = <<>>
    /\ save_error = FALSE
    /\ verify_outcome = "none"
    /\ ret = -1
    /\ exit_code = -1
    /\ cause = "none"

\* ---- the locator on its own: __main__ lines 472-480 around
\* check_ghostscript, lines 26-45, with the answers of the candidates known
NoCheck == [cmd |-> "None", probed |-> 0, raised |-> FALSE]

LocInit ==
    /\ l_pc = "call"
    /\ probe_out \in [1..Len(Commands) -> ProbeOutcomes]
    /\ gs = NoCheck
    /\ l_exit = -1

LocIdle ==
    /\ l_pc = "idle"
    /\ probe_out = [i \in 1..Len(Commands) |-> "missing"]
    /\ gs = NoCheck
    /\ l_exit = -1

\* gs = check_ghostscript(); if not gs: ... sys.exit(1); an exception that
\* check_ghostscript lets through ends __main__ with status 1
LocateGs ==
    /\ l_pc = "call"
    /\ gs' = check_ghostscript(probe_out)
    /\ IF gs'.raised THEN l_pc' = "crashed" /\ l_exit' = 1
       ELSE IF gs'.cmd = "None" THEN l_pc' = "exited" /\ l_exit' = 1
       ELSE l_pc' = "convert" /\ l_exit' = -1
    /\ UNCHANGED probe_out
    /\ UNCHANGED <<convVars, substVars, extrVars>>

vars == <<convVars, substVars, extrVars, locVars>>

Init == ConvInit /\ SubstIdle /\ ExtrIdle /\ LocIdle

Next ==
    \/ ValidateDpi
    \/ MainCheckGs
    \/ ConvertEntry
    \/ Mkdtemp
    \/ Rasterize
    \/ BuildPages
    \/ Substitute
    \/ InsertImages
    \/ SavePdf
    \/ SaveImages
    \/ Stats
    \/ Verify
    \/ CleanupReturn
    \/ MainExit

Spec == Init /\ [][Next]_vars

\* ======================================================================
\*  Properties of the conversion command (under Spec)
\* ======================================================================

Invocations(op) == {k \in DOMAIN calls : calls[k].op = op}

\* C1: once the transient working directory has been created, every path on
\* which convert_pdf_to_grayscale returns has run the cleanup step (the
\* rmtree of that directory) before returning.
C1_CleanupOnEveryReturn ==
    (pc = "returned" /\ temp_dir # "absent") => cleanup_ran

\* C2 as stated: a successful run over N >= 1 page images saves a document of
\* exactly N pages and leaves exactly N image files in converted_images,
\* whatever the directory held before.
C2_ExactlyNFilesWhateverBefore ==
    (pc = "done" /\ exit_code = 0) =>
        /\ Len(png_files) >= 1
        /\ Len(output_pdf) = Len(png_files)
        /\ Cardinality(DOMAIN images_dir) = Len(png_files)

\* C2 as amended: a successful run over N >= 1 page images saves a document
\* of exactly N pages; when step 5 raised nothing, converted_images holds
\* page_0001..page_N of this run together with every other file it held before
\* (so exactly N files when it held none outside 1..N); when step 5 raised,
\* it holds nothing beyond those.
C2_PagesAndSideFiles ==
    (pc = "done" /\ exit_code = 0) =>
        LET N == Len(png_files) IN
          /\ N >= 1
          /\ output_saved
          /\ Len(output_pdf) = N
          /\ DOMAIN images_dir \subseteq (1..N) \cup DOMAIN images_dir_before
          /\ DOMAIN images_dir_before \subseteq DOMAIN images_dir
          /\ ~save_error =>
               /\ DOMAIN images_dir = (1..N) \cup DOMAIN images_dir_before
               /\ \A i \in 1..N : images_dir[i] = PngSave(grayscale_images[i], dpi)
               /\ (DOMAIN images_dir_before \subseteq 1..N
                     => Cardinality(DOMAIN images_dir) = N)

\* a successful two-page run, step 5 clean, into a directory that already
\* held page_0003.png
C2_Witness ==
    /\ pc = "done"
    /\ exit_code = 0
    /\ ~save_error
    /\ Len(png_files) = 2
    /\ 3 \in DOMAIN images_dir_before
    /\ Cardinality(DOMAIN images_dir) > 2

\* C4: a DPI outside [72, 2400] ends the command with status 1 before any
\* rasterizer subprocess (version probe or rasterization) is invoked; a DPI
\* inside the range, 72 and 2400 included, is never stopped by the DPI check.
C4_DpiRange ==
    /\ (dpi < MinDpi \/ dpi > MaxDpi) =>
          /\ pc \in {"validate_dpi", "done"}
          /\ calls = <<>>
          /\ pc = "done" => (exit_code = 1 /\ cause = "dpi")
    /\ (dpi >= MinDpi /\ dpi <= MaxDpi) =>
          /\ cause # "dpi"
          /\ pc = "done" => Invocations("version") # {}

\* the run at DPI 2401 has ended
C4_Witness ==
    pc = "done" /\ dpi = MaxDpi + 1 /\ exit_code = 1 /\ calls = <<>>

\* C5: the command exits 1 on every fatal error and 0 only when the
\* rasterization gave at least one page image and the output document was
\* saved; after a fatal rasterization error the rasterizer is not invoked
\* again and no output document is written.
C5_ExitCodes ==
    pc = "done" =>
        /\ exit_code \in {0, 1}
        /\ ~input_exists /\ cause \notin {"dpi", "crash", "no_gs"}
              => (exit_code = 1 /\ cause = "missing_input")
        /\ cause # "none" => exit_code = 1
        /\ exit_code = 0 =>
              /\ cause = "none"
              /\ Len(png_files) >= 1
              /\ output_saved
              /\ Len(output_pdf) >= 1
        /\ cause \in {"gs_exit", "no_png", "timeout"} =>
              /\ ~output_saved
              /\ output_pdf = <<>>
              /\ Cardinality(Invocations("pnggray")) = 1
              /\ Invocations("inkcov") = {}
              /\ calls[Len(calls)].op = "pnggray"

\* the rasterizer ended with return code 0 and no page file
C5_Witness ==
    pc = "done" /\ cause = "no_png" /\ exit_code = 1

\* C6: once the output document is saved, a failure of step 5 (the side
\* images) or of the verification pass (non-zero result, crash, 30 s timeout)
\* is only a warning: the run goes on, returns 0, and the saved document is
\* not touched again.
C6_SideFailuresAreWarnings ==
    /\ [][/\ pc = "save_images" => (pc' = "stats" /\ ret' = ret)
          /\ pc = "verify" => (pc' = "cleanup" /\ ret' = ret)
          /\ output_saved => (output_saved' /\ output_pdf' = output_pdf)]_vars
    /\ [](pc = "done" /\ verify_outcome # "none" =>
             exit_code = 0 /\ output_saved /\ output_pdf = empty_pdf_doc)

\* both side operations failed and the run still ended with status 0
C6_Witness ==
    /\ pc = "done"
    /\ save_error
    /\ verify_outcome = "TimeoutExpired"
    /\ output_saved
    /\ exit_code = 0

\* ======================================================================
\*  Specification and property of the substitution on its own
\* ======================================================================

InitSubst == ConvIdle /\ SubstInit /\ ExtrIdle /\ LocIdle

NextSubst ==
    \/ ApplySubstitution
    \/ InsertOnPage
    \/ SaveSideImage

SpecSubst == InitSubst /\ [][NextSubst]_vars

\* C3: background substitution maps each 8-bit pixel on its own: a pixel of
\* value v becomes 217 when v >= 240 and stays v when v < 240; the image
\* keeps its width and height.
C3_Substitution ==
    s_pc = "substituted" =>
        /\ img_with_bg.width = img_gray.width
        /\ img_with_bg.height = img_gray.height
        /\ DOMAIN img_with_bg.px = DOMAIN img_gray.px
        /\ \A i \in DOMAIN img_gray.px :
             /\ img_gray.px[i] >= 240 => img_with_bg.px[i] = 217
             /\ img_gray.px[i] < 240 => img_with_bg.px[i] = img_gray.px[i]

\* a two-pixel image holding the threshold value and the value below it
C3_Witness ==
    /\ s_pc = "substituted"
    /\ img_gray.px = <<240, 239>>
    /\ img_with_bg.px = <<217, 239>>

\* C14: the substitution leaves no bright pixel (no value in 240..255 after
\* one application, the replacement value lying below the threshold), so
\* applying it to its own result changes nothing; and the image placed on
\* the page of the output document and the image written to the side
\* directory for that page carry the same, substituted, pixels.
C14_IdempotentNoBrightPixels ==
    /\ s_pc \in {"substituted", "inserted", "saved"} =>
          /\ \A i \in DOMAIN img_with_bg.px : img_with_bg.px[i] \notin 240..255
          /\ SubstituteBackground(img_with_bg) = img_with_bg
    /\ s_pc \in {"inserted", "saved"} =>
          /\ s_page.image.px = img_with_bg.px
          /\ <<s_page.image.width, s_page.image.height>>
               = <<img_gray.width, img_gray.height>>
    /\ s_pc = "saved" =>
          /\ DOMAIN s_dir = {1}
          /\ s_dir[1].px = s_page.image.px
          /\ s_dir[1].px = SubstituteBackground(img_gray).px
          /\ <<s_dir[1].width, s_dir[1].height>>
               = <<s_page.image.width, s_page.image.height>>

\* white, the threshold value: both become 217 in the document and in the
\* side file, and a second application finds nothing to replace
C14_Witness ==
    /\ s_pc = "saved"
    /\ img_gray.px = <<255, 240>>
    /\ img_with_bg.px = <<217, 217>>
    /\ s_page.image.px = <<217, 217>>
    /\ s_dir[1].px = <<217, 217>>
    /\ WhiteMask(img_with_bg.px) = <<FALSE, FALSE>>

\* ======================================================================
\*  Specification and properties of the extraction command
\* ======================================================================

InitExtract == ConvIdle /\ SubstIdle /\ ExtrInit /\ LocIdle

NextExtract ==
    \/ MainArgs
    \/ MainCheckPath
    \/ OpenPdf
    \/ NextPage
    \/ ExtractImage
    \/ EndOfPage
    \/ Finish

SpecExtract == InitExtract /\ [][NextExtract]_vars

\* ---- what the properties compare the run with: the document's images in
\* page order, each with its 1-based page number
RECURSIVE FlatFrom(_, _)
FlatFrom(pages, k) ==
    IF k > Len(pages) THEN <<>>
    ELSE [i \in 1..Len(pages[k]) |-> [img |-> pages[k][i], page |-> k]]
         \o FlatFrom(pages, k + 1)

Flat == FlatFrom(pdf_document.pages, 1)

\* an image the extractor can decode, at least 50 pixels wide and high
Qualifies(e) == e.img.extract = "ok" /\ e.img.width >= 50 /\ e.img.height >= 50

\* images the loops have passed so far
Passed ==
    SumSeq([k \in 1..page_num |-> Len(pdf_document.pages[k])])
    + (IF e_pc = "image" THEN img_index ELSE 0)

OriginOf(entries) == [i \in DOMAIN entries |->
                        <<entries[i].page, entries[i].img.width, entries[i].img.height>>]

OriginOfRecords(recs) == [i \in DOMAIN recs |-> <<recs[i].page, recs[i].width, recs[i].height>>]

Ran == e_pc = "done"

Succeeded == Ran /\ stdout # <<>> /\ stdout[1].success

PageFailure == Ran /\ stdout = <<ErrorObject(ExtractFailed("page"))>>

\* C7: every record of `images` comes from an embedded image at least 50
\* pixels wide and 50 high (49 in either direction is left out, 50x50 is
\* kept), `count` is the length of `images`, and a document without embedded
\* images gives success true, an empty list, count 0 and exit status 0.
C7_SizeFilter ==
    /\ \A i \in DOMAIN extracted_images :
          extracted_images[i].width >= 50 /\ extracted_images[i].height >= 50
    /\ Succeeded =>
          /\ stdout[1].count = Len(stdout[1].images)
          /\ \A i \in DOMAIN stdout[1].images :
                stdout[1].images[i].width >= 50 /\ stdout[1].images[i].height >= 50
          /\ OriginOfRecords(stdout[1].images) = OriginOf(SelectSeq(Flat, Qualifies))
    /\ (Ran /\ pdf_document.openable /\ Flat = <<>> /\ ~PageFailure) =>
          /\ stdout = <<[success |-> TRUE, images |-> <<>>, count |-> 0]>>
          /\ e_exit = 0

\* a 49x50 image, a 50x49 image and a 50x50 image: only the last is reported
C7_Witness ==
    /\ Succeeded
    /\ Len(Flat) = 3
    /\ <<Flat[1].img.width, Flat[1].img.height>> = <<49, 50>>
    /\ <<Flat[2].img.width, Flat[2].img.height>> = <<50, 49>>
    /\ <<Flat[3].img.width, Flat[3].img.height>> = <<50, 50>>
    /\ stdout[1].count = 1

\* C8: a failure while decoding one embedded image skips that image only:
\* the records collected so far stay as they are, every other qualifying
\* image of the same page and of the later pages is still emitted, and the
\* command still reports success with exit status 0.
C8_FailureIsolation ==
    /\ [][e_pc = "image" =>
            /\ e_pc' \in {"image", "page"}
            /\ \/ extracted_images' = extracted_images
               \/ /\ Len(extracted_images') = Len(extracted_images) + 1
                  /\ SubSeq(extracted_images', 1, Len(extracted_images)) = extracted_images]_vars
    /\ [](e_pc \in {"page", "image"} =>
            OriginOfRecords(extracted_images)
              = OriginOf(SelectSeq(SubSeq(Flat, 1, Passed), Qualifies)))
    /\ []((Ran /\ argv_len >= 3 /\ path_exists /\ pdf_document.openable /\ ~PageFailure) =>
            /\ e_exit = 0
            /\ stdout[1].success
            /\ OriginOfRecords(stdout[1].images) = OriginOf(SelectSeq(Flat, Qualifies)))

\* page 1 holds an image whose decoding raises, then a good one; page 2 holds
\* another good one: both good ones are reported
C8_Witness ==
    /\ Succeeded
    /\ Len(pdf_document.pages) = 2
    /\ Len(pdf_document.pages[1]) = 2
    /\ pdf_document.pages[1][1].extract = "raise"
    /\ Qualifies([img |-> pdf_document.pages[1][2], page |-> 1])
    /\ Len(pdf_document.pages[2]) = 1
    /\ Qualifies([img |-> pdf_document.pages[2][1], page |-> 2])
    /\ OriginOfRecords(stdout[1].images) = <<<<1, 50, 50>>, <<2, 50, 50>>>>
    /\ e_exit = 0

\* C9: every run writes exactly one JSON object to standard output and then
\* exits: a success object with status 0 when the document was opened and
\* enumerated, an object with success false and an error message with status
\* 1 when the path does not exist, the PDF cannot be opened or fewer than two
\* arguments are given; the status is 0 exactly when success is true.
C9_OneJsonObject ==
    /\ ~Ran => (stdout = <<>> /\ e_exit = -1)
    /\ Ran =>
          /\ Len(stdout) = 1
          /\ e_exit \in {0, 1}
          /\ e_exit = 0 <=> stdout[1].success
          /\ (argv_len < 3 \/ ~path_exists \/ ~pdf_document.openable) =>
                /\ e_exit = 1
                /\ ~stdout[1].success
                /\ DOMAIN stdout[1] = {"success", "error"}
          /\ (argv_len >= 3 /\ path_exists /\ pdf_document.openable /\ ~PageFailure) =>
                /\ e_exit = 0
                /\ DOMAIN stdout[1] = {"success", "images", "count"}
                /\ page_num = Len(pdf_document.pages)

\* the path does not exist
C9_Witness ==
    /\ Ran
    /\ argv_len = 3
    /\ ~path_exists
    /\ stdout = <<[success |-> FALSE, error |-> NotFound]>>
    /\ e_exit = 1

\* C10: in every record, on the re-encoding path and on the fallback path,
\* `size` is the length of the bytes that base64-decoding `base64` gives.
C10_SizeMatchesBase64 ==
    /\ \A i \in DOMAIN extracted_images :
          Len(B64Decode(extracted_images[i].base64)) = extracted_images[i].size
    /\ Succeeded =>
          \A i \in DOMAIN stdout[1].images :
             Len(B64Decode(stdout[1].images[i].base64)) = stdout[1].images[i].size

\* one record of each path: a re-encoded image and one that fell back
C10_Witness ==
    /\ Succeeded
    /\ Len(Flat) = 2
    /\ Qualifies(Flat[1]) /\ Flat[1].img.conv = "ok"
    /\ Qualifies(Flat[2]) /\ Flat[2].img.conv = "fail"
    /\ Len(stdout[1].images) = 2
    /\ stdout[1].images[1].size = Len(Flat[1].img.image) + 4
    /\ stdout[1].images[2].size = Len(Flat[2].img.image)

\* the qualifying images among the first n the loops have passed
QualifyingOf(n) == SelectSeq(SubSeq(Flat, 1, n), Qualifies)

\* the record rec carries the original extracted bytes of the entry e
CarriesOriginal(rec, e) ==
    /\ B64Decode(rec.base64) = e.img.image
    /\ rec.base64 = B64Encode(e.img.image)
    /\ rec.size = Len(e.img.image)

\* C11: when re-encoding a qualifying embedded image fails, a record for that
\* image is still emitted (it is not skipped), and its base64 payload and its
\* size are those of the image's original extracted bytes, not of re-encoded
\* bytes.
C11_FallbackKeepsOriginal ==
    /\ e_pc \in {"page", "image"} =>
          /\ Len(extracted_images) = Len(QualifyingOf(Passed))
          /\ \A i \in DOMAIN extracted_images :
                QualifyingOf(Passed)[i].img.conv = "fail" =>
                   /\ CarriesOriginal(extracted_images[i], QualifyingOf(Passed)[i])
                   /\ B64Decode(extracted_images[i].base64)
                        # JpegSave(QualifyingOf(Passed)[i].img.image)
    /\ Succeeded =>
          /\ Len(stdout[1].images) = Len(QualifyingOf(Len(Flat)))
          /\ \A i \in DOMAIN stdout[1].images :
                QualifyingOf(Len(Flat))[i].img.conv = "fail" =>
                   CarriesOriginal(stdout[1].images[i], QualifyingOf(Len(Flat))[i])

\* a two-byte image whose re-encoding fails, between two that re-encode:
\* three records, the middle one with the two original bytes
C11_Witness ==
    /\ Succeeded
    /\ Len(Flat) = 3
    /\ \A i \in 1..3 : Qualifies(Flat[i])
    /\ <<Flat[1].img.conv, Flat[2].img.conv, Flat[3].img.conv>> = <<"ok", "fail", "ok">>
    /\ Flat[2].img.image = <<137, 80>>
    /\ Len(stdout[1].images) = 3
    /\ B64Decode(stdout[1].images[2].base64) = <<137, 80>>
    /\ stdout[1].images[2].size = 2

\* C13: the records of the returned list are in non-decreasing page order and,
\* within a page, in encounter order; the k-th record (1-based) is named
\* image_p<page>_<k>.jpg with <page> its own 1-based page; the counter runs
\* across the whole document, advances only for images that pass the size
\* filter, and all filenames of one result are distinct.
C13_FilenameCounter ==
    /\ \A k \in DOMAIN extracted_images :
          /\ extracted_images[k].filename
               = [prefix |-> "image_p", page |-> extracted_images[k].page,
                  counter |-> k, ext |-> ".jpg"]
          /\ extracted_images[k].page \in 1..Len(pdf_document.pages)
    /\ \A j, k \in DOMAIN extracted_images :
          /\ j < k => extracted_images[j].page <= extracted_images[k].page
          /\ j # k => extracted_images[j].filename # extracted_images[k].filename
    /\ e_pc \in {"page", "image"} =>
          /\ image_counter = Len(QualifyingOf(Passed))
          /\ image_counter = Len(extracted_images)
          /\ OriginOfRecords(extracted_images) = OriginOf(QualifyingOf(Passed))
    /\ Succeeded =>
          /\ stdout[1].images = extracted_images
          /\ OriginOfRecords(stdout[1].images) = OriginOf(QualifyingOf(Len(Flat)))

\* page 1 holds a too-small image and a qualifying one, page 2 a qualifying
\* one: the names are image_p1_1.jpg and image_p2_2.jpg
C13_Witness ==
    /\ Succeeded
    /\ Len(pdf_document.pages) = 2
    /\ Len(pdf_document.pages[1]) = 2
    /\ Len(pdf_document.pages[2]) = 1
    /\ pdf_document.pages[1][1].extract = "ok"
    /\ TooSmall(pdf_document.pages[1][1].width, pdf_document.pages[1][1].height)
    /\ Qualifies(Flat[2])
    /\ Qualifies(Flat[3])
    /\ Len(stdout[1].images) = 2
    /\ stdout[1].images[1].filename = Filename(1, 1)
    /\ stdout[1].images[2].filename = Filename(2, 2)

\* ======================================================================
\*  Specification and property of the rasterizer locator
\* ======================================================================

InitLocator == ConvIdle /\ SubstIdle /\ ExtrIdle /\ LocInit

NextLocator == LocateGs

SpecLocator == InitLocator /\ [][NextLocator]_vars

\* the candidates whose version query exits 0
ExitZero == {i \in DOMAIN probe_out : probe_out[i] = "rc0"}

FirstOf(S) == CHOOSE i \in S : \A j \in S : i <= j

\* C12: the locator probes gswin64c, gswin32c, gs in this order and returns
\* the first candidate whose version query exits 0, passing over the
\* candidates before it; it returns the not-found signal exactly when no
\* candidate's version query exits 0, and then the command exits non-zero
\* without going on to the conversion.
C12_LocatorFirstExitZero ==
    l_pc \in {"convert", "exited", "crashed"} =>
       /\ ExitZero # {} =>
             /\ ~gs.raised
             /\ gs.cmd = <<"gswin64c", "gswin32c", "gs">>[FirstOf(ExitZero)]
             /\ gs.probed = FirstOf(ExitZero)
             /\ l_pc = "convert"
       /\ ExitZero = {} =>
             /\ ~gs.raised
             /\ gs.cmd = "None"
             /\ gs.probed = 3
             /\ l_pc = "exited"
             /\ l_exit = 1
       /\ (~gs.raised /\ gs.cmd = "None") => ExitZero = {}

====
